---- MODULE Spec2Model ----
(***************************************************************************)
(* A model of the two icx reporting commands:                              *)
(*   - `status` (src/icx/preps/status.py, show_status): the roster loop    *)
(*     that submits two queries per node to a thread pool, the aggregation *)
(*     loop that reads the futures, and the rendering of the table;        *)
(*   - `scan` (src/icx/txscan.py, scan): the filter set-up and the         *)
(*     fetch / filter / print / advance loop.                              *)
(* Python values are modelled as follows.  A dict is a record, and         *)
(* `k in d` is `k \in DOMAIN d`.  None is the record NoneV.  A version     *)
(* string "1.2.9" is [ver |-> <<1, 2, 9>>].  A command-line option value   *)
(* is the sequence of its comma-separated pieces: "a,b" is <<"a", "b">>.   *)
(***************************************************************************)
EXTENDS Integers, Sequences, FiniteSets, TLC

VARIABLES
    \* ---- show_status ----
    preps,          \* the roster returned by icon_getPReps()['preps']
    version,        \* the --version option (NoneV when not given)
    next_term,      \* int(iiss_info['nextPRepTerm'], 0)
    pc,             \* position of show_status's main thread
    items,          \* list of PRep objects
    results,        \* list of futures submitted to the executor
    ai,             \* position of the aggregation loop in items (1-based)
    top_height,
    last_version,
    version_check,
    rows,           \* the table rows printed, in order
    summary,        \* the summary line printed (NoneV before it is printed)
    \* ---- scan ----
    block,          \* the BLOCK argument
    forward, nobase, receivers, senders, addresses, methods, data_types,
    tx_filters,     \* list of the enabled filter predicates
    spc,            \* position of scan
    id,             \* the cursor
    sep_print,
    blk,            \* the block fetched by the latest iteration
    lines,          \* kind and height column of every table line printed
    batch,          \* the transactions printed by the latest iteration, in print order
    fetched         \* heights of the blocks fetched so far

statusVars == <<preps, version, next_term, pc, items, results, ai, top_height,
                last_version, version_check, rows, summary>>
scanVars == <<block, forward, nobase, receivers, senders, addresses, methods,
              data_types, tx_filters, spc, id, sep_print, blk, lines, batch, fetched>>
vars == <<statusVars, scanVars>>

\* ------------------------------------------------------------------ bounds
MaxRoster == 2
MaxHeight == 4
MaxBlock == 2

\* ------------------------------------------------------------------ python values
NoneV == [tag |-> "None"]
\* an attribute that has not been assigned yet
Unset == [tag |-> "unset"]
Unknown == [str |-> "unknown"]
Ver(v) == [ver |-> v]


\* ------------------------------------------------------------------ semanticversion
\* Dotted-numeric comparison, component by component; a missing trailing
\* component compares as zero.
RECURSIVE ComponentsLower(_, _)
ComponentsLower(a, b) ==
    IF a = <<>> /\ b = <<>> THEN FALSE
    ELSE LET x == IF a = <<>> THEN 0 ELSE Head(a)
             y == IF b = <<>> THEN 0 ELSE Head(b)
         IN IF x < y THEN TRUE
            ELSE IF x > y THEN FALSE
            ELSE ComponentsLower(IF a = <<>> THEN a ELSE Tail(a),
                                 IF b = <<>> THEN b ELSE Tail(b))

is_lower_version(a, b) ==
    IF b = NoneV THEN FALSE
    ELSE IF a = NoneV THEN TRUE
    ELSE ComponentsLower(a.ver, b.ver)

\* ------------------------------------------------------------------ show_status: inputs
GRADE_TO_TYPE == ("0x0" :> "Main") @@ ("0x1" :> "Sub") @@ ("0x2" :> "Cand")

\* int(s, 0) on the hexadecimal strings the roster carries
int0(s) == CASE s = "0x0" -> 0
             [] s = "0x1" -> 1
             [] s = "0x64" -> 100

\* json.load of the node metadata file
prep_info ==
    ("hxA" :> [name |-> "alpha", ip |-> "10.0.0.1"]) @@
    ("hxN" :> [name |-> "beta", ip |-> "10.0.0.2"]) @@
    ("hxE" :> [name |-> "epsilon"]) @@
    ("hxF" :> [name |-> "phi", ip |-> "10.0.0.3"])

\* roster entries: full metadata, full metadata under the node-address alias,
\* absent with grade 0x1, absent with another grade, metadata without ip
EntryPool == {
    [address |-> "hxA", name |-> "alpha", grade |-> "0x0", power |-> "0x64"],
    [address |-> "hxB", nodeAddress |-> "hxN", name |-> "beta", grade |-> "0x1", power |-> "0x0"],
    [address |-> "hxC", name |-> "gamma", grade |-> "0x1", power |-> "0x1"],
    [address |-> "hxD", name |-> "delta", grade |-> "0x2", power |-> "0x1"],
    [address |-> "hxE", name |-> "epsilon", grade |-> "0x0", power |-> "0x1"],
    [address |-> "hxF", name |-> "phi", grade |-> "0x2", power |-> "0x1"] }

\* rosters: addresses are unique
Rosters == UNION { { r \in [1..n -> EntryPool] : \A i, j \in 1..n : r[i] = r[j] => i = j }
                   : n \in 0..MaxRoster }

VersionPool == { Ver(<<1, 2, 9>>), Ver(<<1, 3, 0>>), Ver(<<1, 3, 1>>) }
Heights == { 1, MaxHeight }
\* what getChain may answer: height and state, or a dict without a height
ChainAnswers == { [height |-> h, state |-> "started"] : h \in Heights } \cup { [state |-> "stopped"] }

\* ------------------------------------------------------------------ show_status: roster loop
PRep(prep) == [prep |-> prep, futures |-> <<>>, chain |-> Unset, version |-> Unset]

DisplayAddr(prep) == IF "nodeAddress" \in DOMAIN prep THEN prep.nodeAddress ELSE prep.address

submit(fn, ip) == [fn |-> fn, ip |-> ip, state |-> "pending", raised |-> FALSE, value |-> NoneV]

\* one iteration for a roster entry whose metadata is absent
AbsentEntry(prep, acc) ==
    IF prep.grade = "0x1"
    THEN [acc EXCEPT !.items = Append(@, PRep(NoneV))]
    ELSE \* item.append(...): item is unbound or a PRep object, which has no append
         [acc EXCEPT !.raised = TRUE]

RECURSIVE RosterLoop(_, _, _)
RosterLoop(roster, k, acc) ==
    IF k > Len(roster) \/ acc.raised THEN acc
    ELSE LET prep == roster[k]
             addr == DisplayAddr(prep)
         IN IF addr \notin DOMAIN prep_info
            THEN RosterLoop(roster, k + 1, AbsentEntry(prep, acc))
            ELSE LET info == prep_info[addr]
                 IN IF "name" \notin DOMAIN info \/ "ip" \notin DOMAIN info
                    THEN RosterLoop(roster, k + 1, [acc EXCEPT !.items = Append(@, PRep(NoneV))])
                    ELSE LET n == Len(acc.results)
                             item == [PRep([name |-> prep.name, ip |-> info.ip,
                                            type |-> GRADE_TO_TYPE[prep.grade],
                                            power |-> int0(prep.power)])
                                      EXCEPT !.futures = <<n + 1, n + 2>>]
                         IN RosterLoop(roster, k + 1,
                                [acc EXCEPT !.items = Append(@, item),
                                            !.results = @ \o <<submit("node_get_chain", info.ip),
                                                               submit("node_get_version", info.ip)>>])

\* lines 47-86: the whole loop; futures.as_completed(results) only builds a
\* generator that is never iterated, so it waits for nothing
Build ==
    /\ pc = "build"
    /\ LET r == RosterLoop(preps, 1, [items |-> <<>>, results |-> <<>>, raised |-> FALSE])
       IN /\ items' = r.items
          /\ results' = r.results
          /\ pc' = IF r.raised THEN "crashed"
                   ELSE IF r.items = <<>> THEN "render" ELSE "aggregate"
    /\ ai' = 1
    /\ top_height' = 0
    /\ last_version' = NoneV
    /\ UNCHANGED <<preps, version, next_term, version_check, rows, summary>>
    /\ UNCHANGED scanVars

\* ------------------------------------------------------------------ the worker pool
node_get_chain(f) ==
    /\ f \in 1..Len(results)
    /\ results[f].fn = "node_get_chain"
    /\ results[f].state = "pending"
    /\ \/ results' = [results EXCEPT ![f].state = "done", ![f].raised = TRUE]
       \/ \E c \in ChainAnswers :
              results' = [results EXCEPT ![f].state = "done", ![f].value = c]
    /\ UNCHANGED <<preps, version, next_term, pc, items, ai, top_height, last_version,
                   version_check, rows, summary>>
    /\ UNCHANGED scanVars

node_get_version(f) ==
    /\ f \in 1..Len(results)
    /\ results[f].fn = "node_get_version"
    /\ results[f].state = "pending"
    /\ \/ results' = [results EXCEPT ![f].state = "done", ![f].raised = TRUE]
       \/ \E v \in VersionPool :
              results' = [results EXCEPT ![f].state = "done", ![f].value = v]
    /\ UNCHANGED <<preps, version, next_term, pc, items, ai, top_height, last_version,
                   version_check, rows, summary>>
    /\ UNCHANGED scanVars

\* ------------------------------------------------------------------ show_status: aggregation loop
\* a handler that forgets to reset the chain
MarkUnreachableKeepsChain(item) == [item EXCEPT !.version = Unknown]

\* the except clause
MarkUnreachable(item) == [item EXCEPT !.chain = NoneV, !.version = Unknown]

\* the loop moves to the next item, or ends
NextItem ==
    /\ ai' = ai + 1
    /\ pc' = IF ai + 1 > Len(items) THEN "render" ELSE "aggregate"

\* item.futures[0] on an item without futures raises IndexError
AggregateNoFutures ==
    /\ pc = "aggregate"
    /\ items[ai].futures = <<>>
    /\ items' = [items EXCEPT ![ai] = MarkUnreachable(@)]
    /\ NextItem
    /\ UNCHANGED <<preps, version, next_term, results, top_height, last_version,
                   version_check, rows, summary>>
    /\ UNCHANGED scanVars

TopHeightAfter(chain, top) ==
    IF "height" \in DOMAIN chain /\ chain.height > top THEN chain.height ELSE top

\* item.futures[0].result() blocks until the chain query is done
AggregateChain ==
    /\ pc = "aggregate"
    /\ items[ai].futures # <<>>
    /\ LET f == results[items[ai].futures[1]]
       IN /\ f.state = "done"
          /\ IF f.raised
             THEN /\ items' = [items EXCEPT ![ai] = MarkUnreachable(@)]
                  /\ NextItem
                  /\ UNCHANGED top_height
             ELSE /\ items' = [items EXCEPT ![ai].chain = f.value]
                  /\ top_height' = TopHeightAfter(f.value, top_height)
                  /\ pc' = "aggregate_version"
                  /\ UNCHANGED ai
    /\ UNCHANGED <<preps, version, next_term, results, last_version, version_check,
                   rows, summary>>
    /\ UNCHANGED scanVars

\* item.futures[1].result() blocks until the version query is done
AggregateVersion ==
    /\ pc = "aggregate_version"
    /\ LET f == results[items[ai].futures[2]]
       IN /\ f.state = "done"
          /\ IF f.raised
             THEN /\ items' = [items EXCEPT ![ai] = MarkUnreachable(@)]
                  /\ UNCHANGED last_version
             ELSE /\ items' = [items EXCEPT ![ai].version = f.value]
                  /\ last_version' = IF is_lower_version(last_version, f.value)
                                     THEN f.value ELSE last_version
    /\ NextItem
    /\ UNCHANGED <<preps, version, next_term, results, top_height, version_check,
                   rows, summary>>
    /\ UNCHANGED scanVars


\* ------------------------------------------------------------------ show_status: rendering
\* a baseline that ignores the override
VersionCheckIgnoresOverride(last, override) == last

\* lines 108-110
VersionCheck(last, override) == IF override # NoneV THEN override ELSE last

\* lines 139-146
RowFormat(prep) ==
    IF prep.power > 0
    THEN IF prep.type = "Main" THEN "MAIN_FORMAT" ELSE "STATUS_FORMAT"
    ELSE "NOPOWER_FORMAT"

\* lines 153-163: how a reachable node's version is judged against the baseline
VersionMark(ver, vc) ==
    IF vc = NoneV THEN "raw"
    ELSE IF is_lower_version(ver, vc) THEN "behind"
    ELSE "OK"

\* lines 171-180
LATE_MARGIN == 2
ChainColumn(chain, top) ==
    IF "height" \in DOMAIN chain /\ "state" \in DOMAIN chain
    THEN IF chain.height < top - LATE_MARGIN
         THEN [kind |-> "late", height |-> chain.height, state |-> chain.state,
               deficit |-> chain.height - top]
         ELSE [kind |-> "plain", height |-> chain.height, state |-> chain.state]
    ELSE [kind |-> "none"]

IN22 == 22

\* one iteration of the rendering loop for an item that is displayed
RenderRow(item, vc, top, st) ==
    IF item.chain = NoneV
    THEN [st EXCEPT !.rows = Append(@, [idx |-> st.idx, type |-> item.prep.type,
                                        ip |-> item.prep.ip, format |-> RowFormat(item.prep),
                                        mark |-> "FAIL", shown |-> NoneV,
                                        chain |-> [kind |-> "none"]]),
                    !.idx = @ + 1]
    ELSE LET mark == VersionMark(item.version, vc)
             main == item.prep.type = "Main"
             col == ChainColumn(item.chain, top)
         IN [st EXCEPT
                !.rows = Append(@, [idx |-> st.idx, type |-> item.prep.type,
                                    ip |-> item.prep.ip, format |-> RowFormat(item.prep),
                                    mark |-> mark,
                                    shown |-> IF mark = "OK" THEN [str |-> "[OK]"] ELSE item.version,
                                    chain |-> col]),
                !.all_nodes = @ + 1,
                !.main_nodes = IF mark # "raw" /\ main THEN @ + 1 ELSE @,
                !.updated_nodes = IF mark = "OK" THEN @ + 1 ELSE @,
                !.updated_main = IF mark = "OK" /\ main THEN @ + 1 ELSE @,
                !.updated_in22 = IF mark = "OK" /\ st.idx < IN22 THEN @ + 1 ELSE @,
                !.late_nodes = IF col.kind = "late" THEN @ + 1 ELSE @,
                !.idx = @ + 1]

RECURSIVE RenderLoop(_, _, _, _, _)
RenderLoop(its, vc, top, k, st) ==
    IF k > Len(its) \/ st.raised THEN st
    ELSE LET item == its[k]
         IN IF item.prep = NoneV
            THEN RenderLoop(its, vc, top, k + 1, [st EXCEPT !.idx = @ + 1])
            ELSE IF "ip" \notin DOMAIN item.prep
            THEN [st EXCEPT !.raised = TRUE]     \* item.prep['ip'] raises KeyError
            ELSE RenderLoop(its, vc, top, k + 1, RenderRow(item, vc, top, st))

SECONDS_PER_BLOCK == 2

\* lines 184-194
SummaryLine(st, vc, top, term) ==
    LET base == [late_nodes |-> st.late_nodes, all_nodes |-> st.all_nodes,
                 next_term |-> term, seconds |-> (term - top) * SECONDS_PER_BLOCK]
    IN IF vc # NoneV
       THEN base @@ [version_check |-> vc, updated_main |-> st.updated_main,
                     updated_nodes |-> st.updated_nodes]
       ELSE base

\* lines 108-194: nothing here blocks
Render ==
    /\ pc = "render"
    /\ LET vc == VersionCheck(last_version, version)
           st == RenderLoop(items, vc, top_height, 1,
                     [idx |-> 0, rows |-> <<>>, late_nodes |-> 0, updated_main |-> 0,
                      updated_in22 |-> 0, updated_nodes |-> 0, all_nodes |-> 0,
                      main_nodes |-> 0, raised |-> FALSE])
       IN /\ version_check' = vc
          /\ rows' = st.rows
          /\ summary' = IF st.raised THEN summary ELSE SummaryLine(st, vc, top_height, next_term)
          /\ pc' = IF st.raised THEN "crashed" ELSE "done"
    /\ UNCHANGED <<preps, version, next_term, items, results, ai, top_height, last_version>>
    /\ UNCHANGED scanVars

\* ------------------------------------------------------------------ show_status: specification
ScanIdle ==
    /\ block = "latest" /\ forward = FALSE /\ nobase = FALSE
    /\ receivers = <<>> /\ senders = <<>> /\ addresses = <<>>
    /\ methods = <<>> /\ data_types = <<>> /\ tx_filters = <<>>
    /\ spc = "idle" /\ id = NoneV /\ sep_print = FALSE
    /\ blk = NoneV /\ lines = <<>> /\ batch = <<>> /\ fetched = <<>>

\* after lines 28-51: the metadata file, the term information and the roster are read
StatusStart ==
    /\ pc = "build"
    /\ items = <<>> /\ results = <<>> /\ ai = 1
    /\ top_height = 0 /\ last_version = NoneV /\ version_check = NoneV
    /\ rows = <<>> /\ summary = NoneV

Init ==
    /\ preps \in Rosters
    /\ version \in { NoneV, Ver(<<1, 3, 0>>) }
    /\ next_term \in { MaxHeight + 6 }
    /\ StatusStart
    /\ ScanIdle

Next ==
    \/ Build
    \/ \E f \in 1..(2 * MaxRoster) : node_get_chain(f)
    \/ \E f \in 1..(2 * MaxRoster) : node_get_version(f)
    \/ AggregateNoFutures
    \/ AggregateChain
    \/ AggregateVersion
    \/ Render

Spec == Init /\ [][Next]_vars


\* ------------------------------------------------------------------ scan: values
\* None where a string is expected
NoString == "<None>"

\* the string an option value stands for: its pieces joined by commas
RECURSIVE Join(_)
Join(v) == IF Len(v) = 1 THEN v[1] ELSE v[1] \o "," \o Join(Tail(v))

\* arg.split(','): the pieces
split(v) == v

RECURSIVE expand_comma(_)
expand_comma(args) ==
    IF args = <<>> THEN <<>> ELSE split(Head(args)) \o expand_comma(Tail(args))

\* x in t, for a tuple t
InTuple(x, t) == \E i \in 1..Len(t) : t[i] = x

\* tuple(map(f, t))
RECURSIVE MapEnsureAddress(_)

AddressBook == ("alice" :> "hx1")
\* an address is returned as it is, a name of the address book as its address
ensure_address(x) == IF x \in DOMAIN AddressBook THEN AddressBook[x] ELSE x

MapEnsureAddress(t) ==
    IF t = <<>> THEN <<>> ELSE <<ensure_address(Head(t))>> \o MapEnsureAddress(Tail(t))

\* a tag is kept, a decimal height is converted
ensure_block(b) ==
    IF b = "latest" THEN [tag |-> "latest"]
    ELSE [height |-> CHOOSE h \in 0..(MaxBlock + 1) : ToString(h) = b]

RECURSIVE dict_get(_, _, _)
dict_get(value, keys, default) ==
    IF keys = <<>> THEN value
    ELSE IF Head(keys) \in DOMAIN value
    THEN dict_get(value[Head(keys)], Tail(keys), default)
    ELSE default

\* ------------------------------------------------------------------ scan: inputs
TxBase == [txHash |-> "0xb0", dataType |-> "base", data |-> [result |-> "0x0"]]
TxBaseTransfer == [txHash |-> "0xb1", dataType |-> "base", data |-> [method |-> "transfer"]]
TxIcx == [txHash |-> "0x01", from |-> "hx1", to |-> "hx2", value |-> "0x10"]
TxCallTransfer == [txHash |-> "0x02", from |-> "hx1", to |-> "cx1", dataType |-> "call",
                   data |-> [method |-> "transfer"]]
TxCallStake == [txHash |-> "0x03", from |-> "hx2", to |-> "cx1", dataType |-> "call",
                data |-> [method |-> "stake"]]

\* confirmed_transaction_list of the blocks the service may return
BlockPool == { <<>>,
               <<TxBase>>,
               <<TxBase, TxCallTransfer, TxCallStake>>,
               <<TxBaseTransfer, TxIcx>>,
               <<TxCallStake, TxCallTransfer>>,
               <<TxIcx, TxCallStake>> }

\* an address option: not given, or given once as "alice,cx1"
AddressOptions == { <<>>, << <<"alice", "cx1">> >> }
\* --method: not given, "transfer", or "transfer,stake"
MethodOptions == { <<>>, << <<"transfer">> >>, << <<"transfer", "stake">> >> }
\* --data_type: not given, or "call,transfer"
DataTypeOptions == { <<>>, << <<"call", "transfer">> >> }
BlockArguments == { "latest" } \cup { ToString(h) : h \in 0..MaxBlock }

\* ------------------------------------------------------------------ scan: filters
\* the lambdas of lines 141-158, which read the tuples bound when they are called
TxFilter(name, tx, opt) ==
    CASE name = "nobase" -> dict_get(tx, <<"dataType">>, NoString) # "base"
      [] name = "to" -> InTuple(dict_get(tx, <<"to">>, NoString), opt.receivers)
      [] name = "from" -> InTuple(dict_get(tx, <<"from">>, NoString), opt.senders)
      [] name = "address" -> \/ InTuple(dict_get(tx, <<"from">>, NoString), opt.addresses)
                             \/ InTuple(dict_get(tx, <<"to">>, NoString), opt.addresses)
      [] name = "method" -> \E i \in 1..Len(opt.methods) :
                                Join(opt.methods[i]) = dict_get(tx, <<"data", "method">>, NoString)
      [] name = "data_type" -> InTuple(dict_get(tx, <<"dataType">>, "transfer"), opt.data_types)

\* filters combined with OR
RECURSIVE merge_filters_any(_, _, _)
merge_filters_any(filter, tx, opt) ==
    IF filter = <<>> THEN FALSE
    ELSE IF TxFilter(Head(filter), tx, opt) THEN TRUE
    ELSE merge_filters_any(Tail(filter), tx, opt)

RECURSIVE merge_filters(_, _, _)
merge_filters(filter, tx, opt) ==
    IF filter = <<>> THEN TRUE
    ELSE IF ~TxFilter(Head(filter), tx, opt) THEN FALSE
    ELSE merge_filters(Tail(filter), tx, opt)

\* list(filter(tx_filter, txs))
RECURSIVE FilterTxs(_, _, _)
FilterTxs(filter, txs, opt) ==
    IF txs = <<>> THEN <<>>
    ELSE (IF merge_filters(filter, Head(txs), opt) THEN <<Head(txs)>> ELSE <<>>)
         \o FilterTxs(filter, Tail(txs), opt)

Options == [receivers |-> receivers, senders |-> senders, addresses |-> addresses,
            methods |-> methods, data_types |-> data_types]

\* lines 137-170
ScanSetup ==
    /\ spc = "setup"
    /\ receivers' = IF Len(receivers) > 0 THEN MapEnsureAddress(expand_comma(receivers)) ELSE receivers
    /\ senders' = IF Len(senders) > 0 THEN MapEnsureAddress(expand_comma(senders)) ELSE senders
    /\ addresses' = IF Len(addresses) > 0 THEN MapEnsureAddress(expand_comma(addresses)) ELSE addresses
    /\ data_types' = IF Len(data_types) > 0 THEN expand_comma(data_types) ELSE data_types
    /\ tx_filters' = (IF nobase THEN <<"nobase">> ELSE <<>>)
                     \o (IF Len(receivers) > 0 THEN <<"to">> ELSE <<>>)
                     \o (IF Len(senders) > 0 THEN <<"from">> ELSE <<>>)
                     \o (IF Len(addresses) > 0 THEN <<"address">> ELSE <<>>)
                     \o (IF Len(methods) > 0 THEN <<"method">> ELSE <<>>)
                     \o (IF Len(data_types) > 0 THEN <<"data_type">> ELSE <<>>)
    /\ id' = ensure_block(block)
    /\ sep_print' = FALSE
    /\ spc' = "loop"
    /\ UNCHANGED <<block, forward, nobase, methods, blk, lines, batch, fetched>>
    /\ UNCHANGED statusVars

\* ------------------------------------------------------------------ scan: the loop
\* the height of the block svc.get_block(id) returns; the chain ends at MaxBlock
BlockExists(i) == IF "tag" \in DOMAIN i THEN TRUE ELSE i.height \in 0..MaxBlock
BlockHeight(i) == IF "tag" \in DOMAIN i THEN MaxBlock ELSE i.height

RECURSIVE Reversed(_)
Reversed(s) == IF s = <<>> THEN <<>> ELSE Reversed(Tail(s)) \o <<Head(s)>>

\* the rows show_txs prints: the first carries the height, the others a blank
show_txs(height, txs, reverse) ==
    LET ordered == IF reverse THEN Reversed(txs) ELSE txs
    IN [i \in 1..Len(ordered) |->
            [title |-> IF i = 1 THEN ToString(height) ELSE "", tx |-> ordered[i]]]

\* a header printed with every batch
HeaderLinesAlways(printed) == << [kind |-> "header"] >>

\* lines 178-180: what print_header adds
HeaderLines(printed) == IF ~printed THEN << [kind |-> "header"] >> ELSE <<>>

RowLines(shown) == [i \in 1..Len(shown) |-> [kind |-> "row", title |-> shown[i].title]]

\* a cursor that ignores the direction
NextIdBackward(height, fwd) == [height |-> height - 1]

\* lines 183-186
NextId(height, fwd) == IF fwd THEN [height |-> height + 1] ELSE [height |-> height - 1]

\* lines 172-186: one iteration
ScanStep ==
    /\ spc = "loop"
    /\ BlockExists(id)
    /\ \E list \in BlockPool :
          LET height == BlockHeight(id)
              txs == FilterTxs(tx_filters, list, Options)
          IN /\ blk' = [height |-> height, confirmed_transaction_list |-> list]
             /\ fetched' = Append(fetched, height)
             /\ IF Len(txs) > 0
                THEN /\ lines' = lines \o HeaderLines(sep_print)
                                       \o RowLines(show_txs(height, txs, ~forward))
                     /\ batch' = show_txs(height, txs, ~forward)
                     /\ sep_print' = TRUE
                ELSE /\ batch' = <<>>
                     /\ UNCHANGED <<lines, sep_print>>
             /\ id' = NextId(height, forward)
    /\ UNCHANGED <<block, forward, nobase, receivers, senders, addresses, methods,
                   data_types, tx_filters, spc>>
    /\ UNCHANGED statusVars

\* svc.get_block raises: nothing catches it
ScanFetchError ==
    /\ spc = "loop"
    /\ ~BlockExists(id)
    /\ spc' = "terminated"
    /\ UNCHANGED <<block, forward, nobase, receivers, senders, addresses, methods,
                   data_types, tx_filters, id, sep_print, blk, lines, batch, fetched>>
    /\ UNCHANGED statusVars

StatusIdle ==
    /\ preps = <<>> /\ version = NoneV /\ next_term = 0 /\ pc = "idle"
    /\ items = <<>> /\ results = <<>> /\ ai = 1
    /\ top_height = 0 /\ last_version = NoneV /\ version_check = NoneV
    /\ rows = <<>> /\ summary = NoneV

InitScan ==
    /\ block \in BlockArguments
    /\ forward \in BOOLEAN
    /\ nobase \in BOOLEAN
    /\ receivers \in AddressOptions
    /\ senders \in AddressOptions
    /\ addresses \in AddressOptions
    /\ methods \in MethodOptions
    /\ data_types \in DataTypeOptions
    /\ tx_filters = <<>>
    /\ spc = "setup" /\ id = NoneV /\ sep_print = FALSE
    /\ blk = NoneV /\ lines = <<>> /\ batch = <<>> /\ fetched = <<>>
    /\ StatusIdle

NextScan ==
    \/ ScanSetup
    \/ ScanStep
    \/ ScanFetchError

SpecScan == InitScan /\ [][NextScan]_vars


\* ================================================================== properties of show_status
\* the items the aggregation loop has finished with
Aggregated == { k \in 1..Len(items) : pc \in {"render", "done"} \/ (pc \in {"aggregate", "aggregate_version"} /\ k < ai) }
Polled == { k \in 1..Len(items) : items[k].futures # <<>> }
ChainQuery(k) == results[items[k].futures[1]]
VersionQuery(k) == results[items[k].futures[2]]
QueryRaised(k) ==
    \/ ChainQuery(k).state = "done" /\ ChainQuery(k).raised
    \/ VersionQuery(k).state = "done" /\ VersionQuery(k).raised

C1_Outcome ==
    \A k \in Aggregated \cap Polled :
        IF QueryRaised(k)
        THEN items[k].chain = NoneV /\ items[k].version = Unknown
        ELSE items[k].chain = ChainQuery(k).value /\ items[k].version = VersionQuery(k).value

C1_Step ==
    /\ (pc' = "crashed" /\ pc # "crashed") => pc = "build"
    /\ pc \in {"aggregate", "aggregate_version"} =>
           \A k \in 1..Len(items) : k # ai => items'[k] = items[k]

\* C1: a polled node whose chain or version query raised ends with chain None and
\* version "unknown", any other polled node has both results recorded; reading one
\* node's futures never ends the run and never changes what is recorded for another node.
C1_ErrorIsolation == []C1_Outcome /\ [][C1_Step]_vars

\* two polled nodes, the first downgraded by a failed version query, the second recorded
C1_Witness ==
    /\ pc = "done"
    /\ \E j, k \in Polled :
          /\ j # k
          /\ ~ChainQuery(j).raised /\ VersionQuery(j).raised
          /\ items[j].chain = NoneV /\ items[j].version = Unknown
          /\ ~QueryRaised(k)
          /\ items[k].chain \in ChainAnswers /\ items[k].version \in VersionPool

SetMax(S) == IF S = {} THEN 0 ELSE CHOOSE x \in S : \A y \in S : y <= x

\* C2: after the aggregation loop, top height is the maximum height over the nodes
\* that are not marked unreachable (0 when there is none).
C2_TopHeightOfPolled ==
    pc \in {"render", "done"} =>
        top_height = SetMax({ items[k].chain.height :
                                k \in { j \in 1..Len(items) : /\ items[j].chain # NoneV
                                                              /\ "height" \in DOMAIN items[j].chain } })

\* strictly lower, for versions of three components
Lower3(a, b) ==
    \/ a[1] < b[1]
    \/ a[1] = b[1] /\ a[2] < b[2]
    \/ a[1] = b[1] /\ a[2] = b[2] /\ a[3] < b[3]

Reachable == { k \in 1..Len(items) : items[k].prep # NoneV /\ items[k].chain # NoneV }
RowsOf(k) == { i \in 1..Len(rows) : rows[i].idx = k - 1 }

\* C3: the baseline is the override when one is given, else the highest version among
\* the reachable nodes; every reachable node's row shows its version as behind iff the
\* version is strictly lower than the baseline and [OK] otherwise, and the summary's
\* updated-nodes count is the number of [OK] rows.
C3_Baseline ==
    pc = "done" =>
        /\ version_check = (IF version # NoneV THEN version ELSE last_version)
        /\ IF Reachable = {} THEN last_version = NoneV
           ELSE /\ \E k \in Reachable : items[k].version = last_version
                /\ \A k \in Reachable : ~Lower3(last_version.ver, items[k].version.ver)
        /\ \A k \in Reachable :
              /\ version_check # NoneV
              /\ \E i \in RowsOf(k) :
                    IF Lower3(items[k].version.ver, version_check.ver)
                    THEN rows[i].mark = "behind" /\ rows[i].shown = items[k].version
                    ELSE rows[i].mark = "OK" /\ rows[i].shown = [str |-> "[OK]"]
        /\ version_check # NoneV =>
              summary.updated_nodes =
                  Cardinality({ k \in Reachable : ~Lower3(items[k].version.ver, version_check.ver) })
        /\ version_check = Ver(<<1, 3, 0>>) =>
              \A i \in 1..Len(rows) : \A k \in Reachable : rows[i].idx = k - 1 =>
                  /\ items[k].version = Ver(<<1, 2, 9>>) => rows[i].mark = "behind"
                  /\ items[k].version \in { Ver(<<1, 3, 0>>), Ver(<<1, 3, 1>>) } => rows[i].mark = "OK"

\* an override of 1.3.0 below the highest version seen, one node behind it and one not
C3_Witness ==
    /\ pc = "done"
    /\ version = Ver(<<1, 3, 0>>)
    /\ last_version = Ver(<<1, 3, 1>>)
    /\ \E i, j \in 1..Len(rows) : rows[i].mark = "behind" /\ rows[j].mark = "OK"
    /\ summary.updated_nodes = 1

\* C8: nothing is printed before every submitted query has completed.
C8_Barrier ==
    (rows # <<>> \/ summary # NoneV) => \A f \in 1..Len(results) : results[f].state = "done"

\* roster entries whose display address has no metadata and whose grade is not 0x1
Degraded == { k \in 1..Len(preps) : DisplayAddr(preps[k]) \notin DOMAIN prep_info /\ preps[k].grade # "0x1" }

\* C9: such an entry is recorded as an item with name, type and power and no ip,
\* without futures, and the run goes on.
C9_DegradedRecorded ==
    pc # "build" =>
        /\ pc # "crashed"
        /\ \A k \in Degraded :
              /\ k <= Len(items)
              /\ items[k].futures = <<>>
              /\ items[k].prep = [name |-> preps[k].name, type |-> GRADE_TO_TYPE[preps[k].grade],
                                  power |-> int0(preps[k].power)]

\* roster entries that are recorded as placeholders
Placeholder(k) ==
    LET addr == DisplayAddr(preps[k])
    IN IF addr \notin DOMAIN prep_info THEN preps[k].grade = "0x1"
       ELSE "name" \notin DOMAIN prep_info[addr] \/ "ip" \notin DOMAIN prep_info[addr]

RowPositions ==
    /\ \A i \in 1..Len(rows) :
          /\ rows[i].idx + 1 \in 1..Len(preps)
          /\ ~Placeholder(rows[i].idx + 1)
          /\ rows[i].ip = prep_info[DisplayAddr(preps[rows[i].idx + 1])].ip
    /\ \A i, j \in 1..Len(rows) : i < j => rows[i].idx < rows[j].idx
    /\ pc = "done" => \A k \in 1..Len(preps) : ~Placeholder(k) => RowsOf(k) # {}

\* C10: one item is recorded per roster entry, in roster order, and every row carries
\* the zero-based roster position of its entry, placeholders printing nothing.
C10_IndexIsRosterPosition ==
    pc # "build" =>
        /\ Len(items) = Len(preps)
        /\ \A k \in 1..Len(preps) : Placeholder(k) <=> items[k].prep = NoneV
        /\ RowPositions

\* the same on the rosters the roster loop gets through
C10_OnCompletedRosters ==
    (pc # "build" /\ Degraded = {}) =>
        /\ Len(items) = Len(preps)
        /\ \A k \in 1..Len(preps) : Placeholder(k) <=> items[k].prep = NoneV
        /\ RowPositions


\* ================================================================== properties of scan
\* the height the BLOCK argument resolves to
ResolvedStart == IF block = "latest" THEN MaxBlock ELSE CHOOSE h \in 0..MaxBlock : ToString(h) = block

\* C4: the heights fetched start at the resolved starting block and go up by one per
\* iteration with --forward, down by one without it.
C4_CursorOrder ==
    \A i \in 1..Len(fetched) :
        fetched[i] = IF forward THEN ResolvedStart + (i - 1) ELSE ResolvedStart - (i - 1)

\* three blocks fetched going forward
C4_Witness == forward /\ Len(fetched) = 3 /\ fetched[3] = fetched[1] + 2

\* a field of a transaction, or a default
Field(tx, k, default) == IF k \in DOMAIN tx THEN tx[k] ELSE default
Method(tx) ==
    IF "data" \in DOMAIN tx THEN Field(tx.data, "method", NoString) ELSE NoString
Elements(t) == { t[i] : i \in 1..Len(t) }
\* the strings given to --method, as they were typed
MethodsTyped == { Join(methods[i]) : i \in 1..Len(methods) }
\* the pieces of the strings given to --method
MethodsExpanded == UNION { Elements(methods[i]) : i \in 1..Len(methods) }

\* every filter but the method filter, for the options as bound after the set-up
PassesOthers(tx) ==
    /\ nobase => Field(tx, "dataType", NoString) # "base"
    /\ receivers # <<>> => Field(tx, "to", NoString) \in Elements(receivers)
    /\ senders # <<>> => Field(tx, "from", NoString) \in Elements(senders)
    /\ addresses # <<>> => \/ Field(tx, "from", NoString) \in Elements(addresses)
                           \/ Field(tx, "to", NoString) \in Elements(addresses)
    /\ data_types # <<>> => Field(tx, "dataType", "transfer") \in Elements(data_types)

\* every enabled filter, the method matched against the strings as typed
Kept(tx) == PassesOthers(tx) /\ (methods # <<>> => Method(tx) \in MethodsTyped)

HeaderCount == Cardinality({ i \in 1..Len(lines) : lines[i].kind = "header" })
RowCount == Cardinality({ i \in 1..Len(lines) : lines[i].kind = "row" })

C5_Step ==
    fetched' # fetched =>
        LET list == blk'.confirmed_transaction_list
            m == Cardinality({ i \in 1..Len(list) : Kept(list[i]) })
            added == SubSeq(lines', Len(lines) + 1, Len(lines'))
        IN /\ Len(lines') >= Len(lines)
           /\ SubSeq(lines', 1, Len(lines)) = lines
           /\ m = 0 => lines' = lines
           /\ (m > 0 /\ RowCount = 0) =>
                  /\ Len(added) = m + 1
                  /\ added[1].kind = "header"
                  /\ \A i \in 2..(m + 1) : added[i].kind = "row"
           /\ (m > 0 /\ RowCount > 0) =>
                  /\ Len(added) = m
                  /\ \A i \in 1..m : added[i].kind = "row"

\* C5: the header is printed at most once, immediately before the first row of the
\* first block with a matching transaction; a block without one prints nothing.
C5_HeaderOnce == [](HeaderCount <= 1) /\ [][C5_Step]_vars

\* a first block without a match, a second that prints the header, a third that prints rows only
C5_Witness ==
    /\ Len(fetched) = 3
    /\ HeaderCount = 1
    /\ lines[1].kind = "header"
    /\ lines[2].title = ToString(fetched[2])
    /\ \E i \in 3..Len(lines) : lines[i].title = ToString(fetched[3])

Printed == [i \in 1..Len(batch) |-> batch[i].tx]
Flipped(s) == [i \in 1..Len(s) |-> s[Len(s) + 1 - i]]

\* C6: the transactions printed for a block are those that pass every enabled filter,
\* in their original order (printed last-first without --forward); with --nobase and
\* --method=transfer a base transaction is dropped whatever its method, a call of
\* transfer is kept and a call of stake is dropped.
C6_FilterAnd ==
    blk # NoneV =>
        LET list == blk.confirmed_transaction_list
            kept == SelectSeq(list, Kept)
        IN /\ Printed = IF forward THEN kept ELSE Flipped(kept)
           /\ (tx_filters = <<"nobase", "method">> /\ MethodsTyped = {"transfer"}) =>
                  \A tx \in Elements(list) :
                      /\ Field(tx, "dataType", NoString) = "base" => tx \notin Elements(Printed)
                      /\ (Field(tx, "dataType", NoString) # "base" /\ Method(tx) = "transfer")
                             => tx \in Elements(Printed)
                      /\ Method(tx) = "stake" => tx \notin Elements(Printed)

\* --nobase --method=transfer on a block holding a base transaction, a transfer and a stake
C6_Witness ==
    /\ blk # NoneV
    /\ tx_filters = <<"nobase", "method">>
    /\ MethodsTyped = {"transfer"}
    /\ blk.confirmed_transaction_list = <<TxBase, TxCallTransfer, TxCallStake>>
    /\ Printed = <<TxCallTransfer>>

\* C7: every option, --method included, matches against the comma-separated pieces of
\* its values: a transaction that passes the other filters and whose method is one of
\* the pieces given to --method is printed.
C7_CommaExpandable ==
    blk # NoneV =>
        \A tx \in Elements(blk.confirmed_transaction_list) :
            (PassesOthers(tx) /\ (methods # <<>> => Method(tx) \in MethodsExpanded))
                => tx \in Elements(Printed)

\* the other four options are expanded: a value "alice,cx1" matches against both pieces
OthersExpanded ==
    spc # "setup" =>
        /\ receivers # <<>> => Elements(receivers) = {"hx1", "cx1"}
        /\ senders # <<>> => Elements(senders) = {"hx1", "cx1"}
        /\ addresses # <<>> => Elements(addresses) = {"hx1", "cx1"}
        /\ data_types # <<>> => Elements(data_types) = {"call", "transfer"}

====
